---- MODULE Spec2Model ----
(***************************************************************************)
(* gethosts (gethosts.go): a command that prints the host list of a        *)
(* Foreman server, keeping a copy in a cache file with a time-based        *)
(* expiry, and optionally filtering it by a pattern argument.              *)
(*                                                                         *)
(* Text (Go string / []byte) is a sequence of one-character strings.       *)
(* One process run (func main) is one action; the clock and the file       *)
(* system persist between runs, the process's own state does not.          *)
(***************************************************************************)
EXTENDS Integers, Sequences, FiniteSets, TLC

\* ------------------------------------------------------------ bounds
MaxResults == 2      \* longest Results array a payload carries (Spec)
MaxTime == 3         \* the clock runs over 0..MaxTime
MaxNames == 3        \* longest name list formatted and filtered (SpecFmt)

\* ------------------------------------------------------------ text
NL == "\n"
AT == "@"

\* strings.Index(s, c) for a one-character c: 0-based index of the first
\* occurrence, -1 when there is none.
Index(s, c) ==
  IF \E k \in 1..Len(s) : s[k] = c
  THEN (CHOOSE k \in 1..Len(s) : s[k] = c /\ \A j \in 1..(k - 1) : s[j] # c) - 1
  ELSE -1

\* strings.HasPrefix(s, prefix)
HasPrefix(s, prefix) ==
  Len(s) >= Len(prefix) /\ SubSeq(s, 1, Len(prefix)) = prefix

\* Mutant of Split: empty fields are left out, as strings.FieldsFunc would.
RECURSIVE SplitFields(_)
SplitFields(s) ==
  LET i == Index(s, NL)
  IN IF i = -1 THEN (IF s = <<>> THEN <<>> ELSE <<s>>)
     ELSE (IF i = 0 THEN <<>> ELSE <<SubSeq(s, 1, i)>>)
          \o SplitFields(SubSeq(s, i + 2, Len(s)))

\* strings.Split(s, "\n"): the substrings between the separators; a string
\* without separator (the empty string too) gives the one-element list <<s>>.
RECURSIVE Split(_)
Split(s) ==
  LET i == Index(s, NL)
  IN IF i = -1 THEN <<s>>
     ELSE <<SubSeq(s, 1, i)>> \o Split(SubSeq(s, i + 2, Len(s)))

\* ------------------------------------------------------------ inputs
\* Host names a payload may carry: any JSON string, a line feed included.
HostNames == { <<>>, <<"a">>, <<"b">>, <<"a", "b">>, <<"a", NL, "b">> }

\* The names the payloads of the cache state machine carry.
FewNames == { <<"a">>, <<"b">> }

RECURSIVE SeqsUpTo(_, _)
SeqsUpTo(S, n) ==
  IF n = 0 THEN { <<>> }
  ELSE LET shorter == SeqsUpTo(S, n - 1)
       IN shorter \cup { Append(l, x) : l \in { m \in shorter : Len(m) = n - 1 }, x \in S }

ResultLists == SeqsUpTo(FewNames, MaxResults)

NameLists == SeqsUpTo(HostNames, MaxNames)

\* The response bodies the server may send, by what encoding/json sees:
\*   results    {"Results":[{"Name":"..."},...]}
\*   noresults  a JSON object without a Results field ({"error":...})
\*   null       the JSON value null
\*   mismatch   {"Results":[...,{"Name":1},...]}: names holds what the decoder
\*              stores (the mismatching Name is left as the empty string)
\*   truncated  syntactically invalid JSON
Bodies ==
  [kind : {"results"}, names : ResultLists]
    \cup [kind : {"noresults", "null", "truncated"}, names : { <<>> }]
    \cup [kind : {"mismatch"}, names : { << <<>> >>, << <<"a">>, <<>> >> }]

NoBody == [kind |-> "none", names |-> <<>>]

\* What the network does to the one GET: the request cannot be built, the
\* connection fails, reading the body fails, or a body arrives.
NetOutcomes ==
  [stage : {"build", "transport", "body"}, body : {NoBody}]
    \cup [stage : {"ok"}, body : Bodies]

\* Command-line arguments after the flags (flag.Args()).
PatternArgs ==
  { <<>>, <<"a">>, <<"b">>, <<"P", AT, "a">>, <<"P", AT>>, <<AT, "a", AT>> }

ArgLists == { <<>> } \cup { <<p>> : p \in PatternArgs }

\* The argument lists the runs of the cache state machine are given.
FewArgLists == { <<>>, << <<"a">> >>, << <<"P", AT>> >> }

\* Values of -cacheduration, in clock ticks.
Durations == { 0, 2 }

\* ------------------------------------------------------------ state
VARIABLES
  pc,             \* "idle": no process; "done": a run has ended and its
                  \* results stand; "input", "formatted", "printed": SpecFmt
  clock,          \* wall-clock time
  dirExists,      \* the cache directory exists
  cacheFile,      \* the cache file: [exists, data, modTime]
  torn,           \* the content of the cache file is the partial work of a
                  \* WriteFile call that did not run to its end (the process
                  \* was killed in it, or is still in it) or was written over
                  \* by another process: it is not the whole text of one call
  args,           \* flag.Args() of the run
  CacheDuration,  \* getter.CacheDuration
  HostPattern,    \* getter.HostPattern (Nil when no argument was given)
  HostPrefix,     \* getter.HostPrefix
  called,         \* the run reached getHosts
  fi,             \* result of os.Stat: [err, modTime]
  readErr,        \* ioutil.ReadFile was attempted and failed
  hit,            \* getHosts returned from the cache branch
  data,           \* the body downloadHosts returned (NoBody: none)
  hosts,          \* the Response decoded by parse: its Results, as names
  rt, err,        \* what getHosts returned
  pipeline,       \* where downloadParseHosts returned: "none" (not called),
                  \* "fetchfail" (line 134), "parsefail" (line 139), "ok"
  requests,       \* HTTP requests issued by the run (client.Do calls)
  mkdirs,         \* os.MkdirAll calls of the run
  writes,         \* ioutil.WriteFile calls of the run
  errd,           \* os.MkdirAll was called and failed
  errf,           \* ioutil.WriteFile was called and failed
  stdout,         \* bytes written to standard output by the run
  exit,           \* exit status of the run (-1: no run has ended)
  procs           \* SpecConc: the getHosts call of each concurrent process,
                  \* [pc, text, rt, hit, err, torn], step by step

fsVars == << clock, dirExists, cacheFile, torn >>

procVars == << args, CacheDuration, HostPattern, HostPrefix, called, fi, readErr,
               hit, data, hosts, rt, err, pipeline, requests, mkdirs, writes, errd,
               errf, stdout, exit >>

vars == << pc, fsVars, procVars, procs >>

Nil == << "nil" >>

\* The processes that call getHosts concurrently on one cache file.
Procs == { 1, 2 }

\* A process about to call getHosts (line 188).
ProcStart ==
  [pc |-> "start", text |-> <<>>, rt |-> <<>>, hit |-> FALSE, err |-> "nil",
   torn |-> FALSE]

NoFile == [exists |-> FALSE, data |-> <<>>, modTime |-> 0]

\* ------------------------------------------------------------ environment
\* os.Stat(cacheLoc): fails when the file does not exist, and may fail on an
\* existing file (statOk = FALSE: the directory cannot be searched).
Stat(file, statOk) ==
  IF file.exists /\ statOk
  THEN [err |-> FALSE, modTime |-> file.modTime]
  ELSE [err |-> TRUE, modTime |-> 0]

\* os.MkdirAll(dir, os.ModePerm): nil when the directory exists or could be
\* created; a failure leaves the directory as it was.
MkdirAll(dir, mkdirOk) ==
  IF mkdirOk THEN [err |-> FALSE, dirExists |-> TRUE]
  ELSE [err |-> TRUE, dirExists |-> dir]

\* ioutil.WriteFile(cacheLoc, data, perm) opens with O_WRONLY|O_CREATE|O_TRUNC,
\* writes and closes.  It can fail at the open (file untouched) or after the
\* truncation with only n bytes stored; both the truncation and the write set
\* the modification time.
WriteOutcomes(text) ==
  { [res |-> "ok", n |-> Len(text)], [res |-> "open", n |-> 0] }
    \cup { [res |-> "short", n |-> k] : k \in 0..Len(text) }

\* Mutant of WriteFile: the write leaves the modification time as it was.
WriteFileKeepTime(file, text, now, wr) ==
  IF wr.res = "open" THEN [err |-> TRUE, file |-> file]
  ELSE [err |-> wr.res # "ok",
        file |-> [exists |-> TRUE, data |-> SubSeq(text, 1, wr.n),
                  modTime |-> file.modTime]]

WriteFile(file, text, now, wr) ==
  IF wr.res = "open" THEN [err |-> TRUE, file |-> file]
  ELSE [err |-> wr.res # "ok",
        file |-> [exists |-> TRUE, data |-> SubSeq(text, 1, wr.n), modTime |-> now]]

\* Mutant of After: the expiry instant itself counts as expired.
AfterOrAt(now, modTime, d) == now >= modTime + d

\* time.Now().After(fi.ModTime().Add(d))
After(now, modTime, d) == now > modTime + d

\* ------------------------------------------------------------ HostGetter
\* Mutant of downloadHosts: a failed client.Do is retried once.
downloadHostsRetry(net) ==
  CASE net.stage = "build"     -> [data |-> NoBody, err |-> "build", requests |-> 0]
    [] net.stage = "transport" -> [data |-> NoBody, err |-> "transport", requests |-> 2]
    [] net.stage = "body"      -> [data |-> NoBody, err |-> "body", requests |-> 1]
    [] OTHER                   -> [data |-> net.body, err |-> "nil", requests |-> 1]

\* downloadHosts: one GET; every failure returns (nil, err).
downloadHosts(net) ==
  CASE net.stage = "build"     -> [data |-> NoBody, err |-> "build", requests |-> 0]
    [] net.stage = "transport" -> [data |-> NoBody, err |-> "transport", requests |-> 1]
    [] net.stage = "body"      -> [data |-> NoBody, err |-> "body", requests |-> 1]
    [] OTHER                   -> [data |-> net.body, err |-> "nil", requests |-> 1]

\* Mutant of parse: the error of json.Unmarshal is dropped.
parseLenient(body) ==
  CASE body.kind \in {"results", "mismatch"} -> [Results |-> body.names, err |-> "nil"]
    [] OTHER -> [Results |-> <<>>, err |-> "nil"]

\* parse: json.Unmarshal(data, &hosts).  A missing Results field and the value
\* null decode without error into the zero Response; a type mismatch reports
\* an error after storing what did decode; invalid JSON stores nothing.
parse(body) ==
  CASE body.kind = "results"  -> [Results |-> body.names, err |-> "nil"]
    [] body.kind = "mismatch" -> [Results |-> body.names, err |-> "parse"]
    [] body.kind = "truncated" -> [Results |-> <<>>, err |-> "parse"]
    [] OTHER                  -> [Results |-> <<>>, err |-> "nil"]

\* Mutant of FormatNames: the names joined by "\n", no newline after the last.
RECURSIVE FormatNamesJoin(_)
FormatNamesJoin(results) ==
  IF results = <<>> THEN <<>>
  ELSE IF Len(results) = 1 THEN Head(results)
  ELSE Head(results) \o <<NL>> \o FormatNamesJoin(Tail(results))

\* The loop of downloadParseHosts: buffer.WriteString(host.Name + "\n").
RECURSIVE FormatNames(_)
FormatNames(results) ==
  IF results = <<>> THEN <<>>
  ELSE Head(results) \o <<NL>> \o FormatNames(Tail(results))

\* Mutant of downloadParseHosts: no return after a parse error, so what did
\* decode is formatted.
downloadParseHostsNoReturn(net) ==
  LET d == downloadHosts(net)
      p == parse(d.data)
  IN IF d.err # "nil"
     THEN [rt |-> <<>>, err |-> d.err, data |-> d.data, hosts |-> <<>>,
           pipeline |-> "fetchfail", requests |-> d.requests]
     ELSE [rt |-> FormatNames(p.Results), err |-> p.err, data |-> d.data,
           hosts |-> p.Results,
           pipeline |-> IF p.err # "nil" THEN "parsefail" ELSE "ok",
           requests |-> d.requests]

downloadParseHosts(net) ==
  LET d == downloadHosts(net)
      p == parse(d.data)
  IN IF d.err # "nil"
     THEN [rt |-> <<>>, err |-> d.err, data |-> d.data, hosts |-> <<>>,
           pipeline |-> "fetchfail", requests |-> d.requests]
     ELSE IF p.err # "nil"
     THEN [rt |-> <<>>, err |-> p.err, data |-> d.data, hosts |-> p.Results,
           pipeline |-> "parsefail", requests |-> d.requests]
     ELSE [rt |-> FormatNames(p.Results), err |-> "nil", data |-> d.data,
           hosts |-> p.Results, pipeline |-> "ok", requests |-> d.requests]

\* The cache branch of getHosts (lines 91-104): the stat, the freshness test
\* and the read.
CacheLookup(file, now, dur, statOk, readOk) ==
  LET st == Stat(file, statOk)
      fresh == ~st.err /\ ~After(now, st.modTime, dur)
  IN [fi |-> st,
      readErr |-> fresh /\ ~readOk,
      hit |-> fresh /\ readOk,
      rt |-> IF fresh /\ readOk THEN file.data ELSE <<>>]

\* The refresh branch of getHosts (lines 106-124).
\* Mutant of Refresh: a failed cache write is returned as the error.
RefreshWriteFatal(file, dir, now, net, mkdirOk, wr) ==
  LET r == downloadParseHosts(net)
      md == MkdirAll(dir, mkdirOk)
      wf == WriteFile(file, r.rt, now, wr)
  IN IF r.err # "nil"
     THEN r @@ [mkdirs |-> 0, writes |-> 0, errd |-> FALSE, errf |-> FALSE,
                file |-> file, dirExists |-> dir]
     ELSE IF md.err
     THEN r @@ [mkdirs |-> 1, writes |-> 0, errd |-> TRUE, errf |-> FALSE,
                file |-> file, dirExists |-> md.dirExists]
     ELSE [r EXCEPT !.err = IF wf.err THEN "write" ELSE "nil"]
            @@ [mkdirs |-> 1, writes |-> 1, errd |-> FALSE, errf |-> wf.err,
                file |-> wf.file, dirExists |-> md.dirExists]

\* Mutant of Refresh: no return after a failed MkdirAll, so the write is
\* attempted all the same.
RefreshMkdirNoReturn(file, dir, now, net, mkdirOk, wr) ==
  LET r == downloadParseHosts(net)
      md == MkdirAll(dir, mkdirOk)
      wf == WriteFile(file, r.rt, now, wr)
  IN IF r.err # "nil"
     THEN r @@ [mkdirs |-> 0, writes |-> 0, errd |-> FALSE, errf |-> FALSE,
                file |-> file, dirExists |-> dir]
     ELSE r @@ [mkdirs |-> 1, writes |-> 1, errd |-> md.err, errf |-> wf.err,
                file |-> wf.file, dirExists |-> md.dirExists]

Refresh(file, dir, now, net, mkdirOk, wr) ==
  LET r == downloadParseHosts(net)
      md == MkdirAll(dir, mkdirOk)
      wf == WriteFile(file, r.rt, now, wr)
  IN IF r.err # "nil"
     THEN r @@ [mkdirs |-> 0, writes |-> 0, errd |-> FALSE, errf |-> FALSE,
                file |-> file, dirExists |-> dir]
     ELSE IF md.err
     THEN r @@ [mkdirs |-> 1, writes |-> 0, errd |-> TRUE, errf |-> FALSE,
                file |-> file, dirExists |-> md.dirExists]
     ELSE r @@ [mkdirs |-> 1, writes |-> 1, errd |-> FALSE, errf |-> wf.err,
                file |-> wf.file, dirExists |-> md.dirExists]

\* Mutant of getHosts: a failed read of the cache file is returned as the
\* error instead of falling through to the refresh.
getHostsReadFatal(file, dir, now, dur, statOk, readOk, net, mkdirOk, wr) ==
  LET c == CacheLookup(file, now, dur, statOk, readOk)
      r == Refresh(file, dir, now, net, mkdirOk, wr)
      look == [fi |-> c.fi, readErr |-> c.readErr, hit |-> c.hit]
  IN IF c.hit \/ c.readErr
     THEN look @@ [rt |-> c.rt, err |-> IF c.readErr THEN "readfile" ELSE "nil",
                   data |-> NoBody, hosts |-> <<>>, pipeline |-> "none",
                   requests |-> 0, mkdirs |-> 0, writes |-> 0, errd |-> FALSE,
                   errf |-> FALSE, file |-> file, dirExists |-> dir]
     ELSE look @@ r

\* Mutant of getHosts: no return in the cache branch, so a hit falls through
\* to the refresh.
getHostsNoReturn(file, dir, now, dur, statOk, readOk, net, mkdirOk, wr) ==
  LET c == CacheLookup(file, now, dur, statOk, readOk)
      r == Refresh(file, dir, now, net, mkdirOk, wr)
  IN [fi |-> c.fi, readErr |-> c.readErr, hit |-> c.hit] @@ r

getHosts(file, dir, now, dur, statOk, readOk, net, mkdirOk, wr) ==
  LET c == CacheLookup(file, now, dur, statOk, readOk)
      r == Refresh(file, dir, now, net, mkdirOk, wr)
      look == [fi |-> c.fi, readErr |-> c.readErr, hit |-> c.hit]
  IN IF c.hit
     THEN look @@ [rt |-> c.rt, err |-> "nil", data |-> NoBody, hosts |-> <<>>,
                   pipeline |-> "none", requests |-> 0, mkdirs |-> 0, writes |-> 0, errd |-> FALSE,
                   errf |-> FALSE, file |-> file, dirExists |-> dir]
     ELSE look @@ r

\* ------------------------------------------------------------ main
\* Mutant of ParseArgs: the prefix stops before the '@' (patt[:i]).
ParseArgsExcludeAt(argv) ==
  IF Len(argv) > 0
  THEN LET patt == argv[1]
           i == Index(patt, AT)
       IN IF i # -1
          THEN [HostPrefix |-> SubSeq(patt, 1, i),
                HostPattern |-> SubSeq(patt, i + 2, Len(patt))]
          ELSE [HostPrefix |-> <<>>, HostPattern |-> patt]
  ELSE [HostPrefix |-> <<>>, HostPattern |-> Nil]

\* Lines 177-186: the first argument, split at its first '@'.
ParseArgs(argv) ==
  IF Len(argv) > 0
  THEN LET patt == argv[1]
           i == Index(patt, AT)
       IN IF i # -1
          THEN [HostPrefix |-> SubSeq(patt, 1, i + 1),
                HostPattern |-> SubSeq(patt, i + 2, Len(patt))]
          ELSE [HostPrefix |-> <<>>, HostPattern |-> patt]
  ELSE [HostPrefix |-> <<>>, HostPattern |-> Nil]

\* Lines 196-200: fmt.Fprintln of the prefixed line for every matching line.
RECURSIVE WriteMatching(_, _, _)
WriteMatching(hostArr, pattern, prefix) ==
  IF hostArr = <<>> THEN <<>>
  ELSE (IF HasPrefix(Head(hostArr), pattern)
        THEN prefix \o Head(hostArr) \o <<NL>> ELSE <<>>)
       \o WriteMatching(Tail(hostArr), pattern, prefix)

\* Lines 193-204: what main writes to standard output for the text hostsText.
Output(hostsText, pattern, prefix) ==
  IF pattern # Nil
  THEN WriteMatching(Split(hostsText), pattern, prefix)
  ELSE hostsText \o <<NL>>

\* ------------------------------------------------------------ actions
\* No process runs: the process variables hold their zero values.
ProcZero ==
  /\ args = <<>>
  /\ CacheDuration = 0
  /\ HostPattern = Nil
  /\ HostPrefix = <<>>
  /\ called = FALSE
  /\ fi = [err |-> TRUE, modTime |-> 0]
  /\ readErr = FALSE
  /\ hit = FALSE
  /\ data = NoBody
  /\ hosts = <<>>
  /\ rt = <<>>
  /\ err = "nil"
  /\ pipeline = "none"
  /\ requests = 0
  /\ mkdirs = 0
  /\ writes = 0
  /\ errd = FALSE
  /\ errf = FALSE
  /\ stdout = <<>>
  /\ exit = -1

Init ==
  /\ pc = "idle"
  /\ clock = 0
  /\ dirExists = FALSE
  /\ cacheFile = NoFile
  /\ torn = FALSE
  /\ procs = [p \in Procs |-> ProcStart]
  /\ ProcZero

\* Mutant of ExitStatus: the error of getHosts is ignored.
ExitStatusIgnored(e) == 0

\* Lines 189-191: log.Fatal exits with status 1 when getHosts returned an
\* error; otherwise main returns, status 0.
ExitStatus(e) == IF e # "nil" THEN 1 ELSE 0

\* func main, a whole process run.  usrOk: user.Current() succeeded.
main(argv, usrOk, dur, statOk, readOk, net, mkdirOk, wr) ==
  \E a \in { ParseArgs(argv) },
     g \in { getHosts(cacheFile, dirExists, clock, dur, statOk, readOk, net,
                      mkdirOk, wr) } :
     /\ pc = "idle"
     /\ pc' = "done"
     /\ IF ~usrOk
        THEN /\ exit' = 1
             /\ UNCHANGED << args, CacheDuration, HostPattern, HostPrefix, called,
                             fi, readErr, hit, data, hosts, rt, err, pipeline, requests,
                             mkdirs, writes, errd, errf, stdout >>
             /\ UNCHANGED << fsVars, procs >>
        ELSE /\ args' = argv
             /\ called' = TRUE
             /\ CacheDuration' = dur
             /\ HostPattern' = a.HostPattern
             /\ HostPrefix' = a.HostPrefix
             /\ fi' = g.fi
             /\ readErr' = g.readErr
             /\ hit' = g.hit
             /\ data' = g.data
             /\ hosts' = g.hosts
             /\ rt' = g.rt
             /\ err' = g.err
             /\ pipeline' = g.pipeline
             /\ requests' = g.requests
             /\ mkdirs' = g.mkdirs
             /\ writes' = g.writes
             /\ errd' = g.errd
             /\ errf' = g.errf
             /\ cacheFile' = g.file
             /\ dirExists' = g.dirExists
             /\ stdout' = IF g.err # "nil" THEN <<>>
                          ELSE Output(g.rt, a.HostPattern, a.HostPrefix)
             /\ exit' = ExitStatus(g.err)
             /\ torn' = (torn /\ (g.writes = 0 \/ wr.res = "open"))
             /\ UNCHANGED << clock, procs >>

\* A run with every answer of its environment.  An answer the run does not
\* ask for (the read of a stale file, the network on a hit, the write after a
\* failed fetch, ...) is not enumerated.
Run ==
  /\ pc = "idle"
  /\ \E usrOk \in BOOLEAN :
      \E argv \in (IF usrOk THEN FewArgLists ELSE { <<>> }),
         dur \in (IF usrOk THEN Durations ELSE { 0 }),
         statOk \in (IF usrOk /\ cacheFile.exists THEN BOOLEAN ELSE { TRUE }) :
        \E readOk \in (IF usrOk /\ ~Stat(cacheFile, statOk).err
                          /\ ~After(clock, cacheFile.modTime, dur)
                       THEN BOOLEAN ELSE { FALSE }) :
          \E net \in (IF usrOk /\ ~CacheLookup(cacheFile, clock, dur, statOk, readOk).hit
                      THEN NetOutcomes ELSE { [stage |-> "build", body |-> NoBody] }) :
            \E mkdirOk \in (IF downloadParseHosts(net).err = "nil"
                            THEN BOOLEAN ELSE { FALSE }) :
              \E wr \in (IF mkdirOk THEN WriteOutcomes(downloadParseHosts(net).rt)
                         ELSE { [res |-> "open", n |-> 0] }) :
                main(argv, usrOk, dur, statOk, readOk, net, mkdirOk, wr)

\* The process has exited; the next run starts from zero values (lines
\* 167-175 build a new getter), only the file system persists.
NewProcess ==
  /\ pc = "done"
  /\ pc' = "idle"
  /\ args' = <<>>
  /\ CacheDuration' = 0
  /\ HostPattern' = Nil
  /\ HostPrefix' = <<>>
  /\ called' = FALSE
  /\ fi' = [err |-> TRUE, modTime |-> 0]
  /\ readErr' = FALSE
  /\ hit' = FALSE
  /\ data' = NoBody
  /\ hosts' = <<>>
  /\ rt' = <<>>
  /\ err' = "nil"
  /\ pipeline' = "none"
  /\ requests' = 0
  /\ mkdirs' = 0
  /\ writes' = 0
  /\ errd' = FALSE
  /\ errf' = FALSE
  /\ stdout' = <<>>
  /\ exit' = -1
  /\ UNCHANGED << fsVars, procs >>

\* Time passes between runs.
Tick ==
  /\ pc = "idle"
  /\ clock < MaxTime
  /\ clock' = clock + 1
  /\ UNCHANGED << pc, dirExists, cacheFile, torn, procVars, procs >>

Next == Run \/ NewProcess \/ Tick

Spec == Init /\ [][Next]_vars

\* ------------------------------------------------------------ crashes
\* ioutil.WriteFile (line 114) is OpenFile with O_WRONLY|O_CREATE|O_TRUNC,
\* then Write at offset 0, then Close: the file is truncated in place, and
\* the text is written over what the file holds from offset 0 on.
OpenTrunc(file, now) == [exists |-> TRUE, data |-> <<>>, modTime |-> now]

WriteAt(file, text, now) ==
  [exists |-> TRUE,
   data |-> text \o SubSeq(file.data, Len(text) + 1, Len(file.data)),
   modTime |-> now]

\* The process is killed in getHosts after os.MkdirAll succeeded (line 109)
\* and before ioutil.WriteFile is called: nothing is returned or written to
\* standard output, the directory exists, the file is as it was.
CrashAfterMkdir ==
  /\ pc = "idle"
  /\ \E dur \in Durations, statOk \in BOOLEAN, readOk \in BOOLEAN, net \in NetOutcomes :
       /\ ~CacheLookup(cacheFile, clock, dur, statOk, readOk).hit
       /\ downloadParseHosts(net).err = "nil"
  /\ dirExists' = TRUE
  /\ UNCHANGED << pc, clock, cacheFile, torn, procVars, procs >>

\* The process is killed inside ioutil.WriteFile (line 114), after the file
\* was truncated and k bytes of the text were written.
CrashInWrite ==
  /\ pc = "idle"
  /\ \E dur \in Durations, statOk \in BOOLEAN, readOk \in BOOLEAN, net \in NetOutcomes :
       /\ ~CacheLookup(cacheFile, clock, dur, statOk, readOk).hit
       /\ downloadParseHosts(net).err = "nil"
       /\ \E k \in 0..Len(downloadParseHosts(net).rt) :
            /\ cacheFile' = WriteAt(OpenTrunc(cacheFile, clock),
                                    SubSeq(downloadParseHosts(net).rt, 1, k), clock)
            /\ torn' = (k < Len(downloadParseHosts(net).rt))
  /\ dirExists' = TRUE
  /\ UNCHANGED << pc, clock, procVars, procs >>

NextCrash == Next \/ CrashAfterMkdir \/ CrashInWrite

\* Runs, any of which may be killed at one of the two points.
SpecCrash == Init /\ [][NextCrash]_vars

\* ------------------------------------------------------------ concurrency
\* getHosts in each of the processes of Procs, one system call at a time, on
\* the one cache file; no step fails but the fetch.
\* Line 91 and 94: os.Stat and the freshness test.
ConcStat(p) ==
  /\ procs[p].pc = "start"
  /\ \E dur \in Durations :
       procs' = [procs EXCEPT ![p].pc =
                   IF CacheLookup(cacheFile, clock, dur, TRUE, TRUE).hit
                   THEN "read" ELSE "fetch"]
  /\ UNCHANGED << pc, fsVars, procVars >>

\* Lines 97-102: ioutil.ReadFile and the return of the file's content.
ConcRead(p) ==
  /\ procs[p].pc = "read"
  /\ procs' = [procs EXCEPT ![p].pc = "done", ![p].hit = TRUE,
                            ![p].rt = cacheFile.data, ![p].torn = torn]
  /\ UNCHANGED << pc, fsVars, procVars >>

\* Lines 106-108: downloadParseHosts.
ConcFetch(p) ==
  /\ procs[p].pc = "fetch"
  /\ \E net \in NetOutcomes :
       procs' = [procs EXCEPT
                   ![p].pc = IF downloadParseHosts(net).err # "nil"
                             THEN "done" ELSE "mkdir",
                   ![p].err = downloadParseHosts(net).err,
                   ![p].text = downloadParseHosts(net).rt]
  /\ UNCHANGED << pc, fsVars, procVars >>

\* Line 109: os.MkdirAll.
ConcMkdir(p) ==
  /\ procs[p].pc = "mkdir"
  /\ procs' = [procs EXCEPT ![p].pc = "open"]
  /\ dirExists' = MkdirAll(dirExists, TRUE).dirExists
  /\ UNCHANGED << pc, clock, cacheFile, torn, procVars >>

\* Line 114, first half: the file is opened and truncated.
ConcOpen(p) ==
  /\ procs[p].pc = "open"
  /\ procs' = [procs EXCEPT ![p].pc = "write"]
  /\ cacheFile' = OpenTrunc(cacheFile, clock)
  /\ torn' = (procs[p].text # <<>>)
  /\ UNCHANGED << pc, clock, dirExists, procVars >>

\* Line 114, second half, and line 124: the text is written and returned.
ConcWrite(p) ==
  /\ procs[p].pc = "write"
  /\ procs' = [procs EXCEPT ![p].pc = "done", ![p].rt = procs[p].text]
  /\ cacheFile' = WriteAt(cacheFile, procs[p].text, clock)
  /\ torn' = (WriteAt(cacheFile, procs[p].text, clock).data # procs[p].text)
  /\ UNCHANGED << pc, clock, dirExists, procVars >>

\* The process has exited and the command is invoked again.
ConcExit(p) ==
  /\ procs[p].pc = "done"
  /\ procs' = [procs EXCEPT ![p] = ProcStart]
  /\ UNCHANGED << pc, fsVars, procVars >>

NextConc ==
  \/ \E p \in Procs :
       \/ ConcStat(p) \/ ConcRead(p) \/ ConcFetch(p) \/ ConcMkdir(p)
       \/ ConcOpen(p) \/ ConcWrite(p) \/ ConcExit(p)
  \/ Tick

SpecConc == Init /\ [][NextConc]_vars

\* ------------------------------------------------------------ formatting
\* The formatting loop and the output stage of main on their own, applied to
\* every name list and argument list of the bounded sets.
InitFmt ==
  /\ pc = "input"
  /\ clock = 0
  /\ dirExists = FALSE
  /\ cacheFile = NoFile
  /\ torn = FALSE
  /\ procs = [p \in Procs |-> ProcStart]
  /\ \E names \in NameLists, argv \in ArgLists :
       /\ hosts = names
       /\ args = argv
  /\ CacheDuration = 0
  /\ HostPattern = Nil
  /\ HostPrefix = <<>>
  /\ called = FALSE
  /\ fi = [err |-> TRUE, modTime |-> 0]
  /\ readErr = FALSE
  /\ hit = FALSE
  /\ data = NoBody
  /\ rt = <<>>
  /\ err = "nil"
  /\ pipeline = "none"
  /\ requests = 0
  /\ mkdirs = 0
  /\ writes = 0
  /\ errd = FALSE
  /\ errf = FALSE
  /\ stdout = <<>>
  /\ exit = -1

\* Lines 141-146 on hosts.Results.
Format ==
  /\ pc = "input"
  /\ pc' = "formatted"
  /\ rt' = FormatNames(hosts)
  /\ UNCHANGED << fsVars, procs, args, CacheDuration, HostPattern, HostPrefix, called, fi,
                  readErr, hit, data, hosts, err, pipeline, requests, mkdirs,
                  writes, errd, errf, stdout, exit >>

\* Lines 177-186 and 193-204 on the text getHosts returned.
Filter ==
  /\ pc = "formatted"
  /\ pc' = "printed"
  /\ HostPattern' = ParseArgs(args).HostPattern
  /\ HostPrefix' = ParseArgs(args).HostPrefix
  /\ stdout' = Output(rt, ParseArgs(args).HostPattern, ParseArgs(args).HostPrefix)
  /\ exit' = 0
  /\ UNCHANGED << fsVars, procs, args, CacheDuration, called, fi, readErr, hit, data,
                  hosts, rt, err, pipeline, requests, mkdirs, writes, errd, errf >>

NextFmt == Format \/ Filter

SpecFmt == InitFmt /\ [][NextFmt]_vars

\* ------------------------------------------------------------ claims
\* A run of main that called getHosts goes from pc = "idle" to pc = "done".
Ran == pc = "idle" /\ pc' = "done" /\ called'

\* C1: for a cache file that exists (the stat succeeded) and whose read did
\* not fail, with modification time T and cache duration D, a call at time
\* now is a cache hit if and only if now <= T + D; a miss runs the fetch
\* pipeline.
FreshnessBoundary ==
  (pc = "done" /\ called /\ ~fi.err /\ ~readErr) =>
    /\ hit <=> (clock <= fi.modTime + CacheDuration)
    /\ ~hit => pipeline # "none"

\* A hit exactly at the expiry instant T + D, D > 0.
FreshnessBoundaryWitness ==
  /\ pc = "done" /\ called /\ ~fi.err /\ hit
  /\ CacheDuration > 0
  /\ clock = fi.modTime + CacheDuration

\* C2: when the cache file exists, is fresh and is read without error, getHosts
\* returns exactly the file's bytes with a nil error, fetches nothing, and
\* leaves the cache directory and the file's content and modification time as
\* they were.
CacheHitFrame ==
  [][(Ran /\ cacheFile.exists /\ ~fi'.err /\ ~readErr'
        /\ clock <= cacheFile.modTime + CacheDuration')
     => /\ rt' = cacheFile.data
        /\ err' = "nil"
        /\ pipeline' = "none" /\ requests' = 0
        /\ mkdirs' = 0 /\ writes' = 0
        /\ cacheFile' = cacheFile
        /\ dirExists' = dirExists]_vars

\* A hit that returned a non-empty cached text.
CacheHitWitness ==
  pc = "done" /\ hit /\ rt # <<>> /\ rt = cacheFile.data /\ clock > cacheFile.modTime

\* C3: when the refresh path is taken and the fetch or the parse fails,
\* getHosts returns a non-nil error with empty text, calls neither MkdirAll
\* nor WriteFile, and leaves the cache file and directory unchanged.
RefreshFailureFrame ==
  [][(Ran /\ pipeline' \in {"fetchfail", "parsefail"})
     => /\ err' # "nil"
        /\ rt' = <<>>
        /\ mkdirs' = 0 /\ writes' = 0
        /\ cacheFile' = cacheFile
        /\ dirExists' = dirExists]_vars

\* A parse failure while a stale, non-empty cache file exists.
RefreshFailureWitness ==
  /\ pc = "done" /\ pipeline = "parsefail" /\ hosts # <<>>
  /\ ~fi.err /\ clock > fi.modTime + CacheDuration
  /\ cacheFile.exists /\ cacheFile.data # <<>>

\* C4: when fetch, parse and MkdirAll succeed and WriteFile fails, getHosts
\* returns the freshly formatted text with a nil error, the same value as
\* when the write succeeds: whenever WriteFile was called, failed or not, the
\* result is the formatted text of the decoded names and a nil error.
CacheWriteTolerance ==
  (pc = "done" /\ writes = 1) =>
    /\ pipeline = "ok" /\ mkdirs = 1 /\ ~errd
    /\ err = "nil"
    /\ rt = FormatNames(hosts)

\* The write failed and a non-empty fresh text was returned.
CacheWriteToleranceWitness ==
  pc = "done" /\ writes = 1 /\ errf /\ err = "nil" /\ rt # <<>>

\* C5: when fetch and parse succeed and MkdirAll fails, getHosts returns
\* without calling WriteFile, returns the freshly formatted text with a nil
\* error, and leaves the cache file unchanged.
MkdirFailureFrame ==
  [][(Ran /\ errd')
     => /\ pipeline' = "ok"
        /\ writes' = 0
        /\ err' = "nil"
        /\ rt' = FormatNames(hosts')
        /\ cacheFile' = cacheFile]_vars

\* MkdirAll failed on a missing directory and a non-empty text was returned.
MkdirFailureWitness ==
  pc = "done" /\ errd /\ mkdirs = 1 /\ ~dirExists /\ err = "nil" /\ rt # <<>>

\* C6: a failed read of a fresh, existing cache file is a miss: the fetch
\* pipeline runs, and the text and error returned are those of the refresh
\* path (the formatted text and nil when it succeeds, empty text and the
\* fetch or parse error when it fails).
ReadFailureIsMiss ==
  (pc = "done" /\ readErr) =>
    /\ ~fi.err /\ clock <= fi.modTime + CacheDuration
    /\ ~hit
    /\ pipeline # "none"
    /\ pipeline = "ok" => (err = "nil" /\ rt = FormatNames(hosts))
    /\ pipeline # "ok" => (err \in {"build", "transport", "body", "parse"} /\ rt = <<>>)

\* The read failed and the refresh succeeded.
ReadFailureWitness ==
  pc = "done" /\ readErr /\ pipeline = "ok" /\ err = "nil" /\ rt # <<>>

\* Total length of the first i names, each followed by one newline.
RECURSIVE Offset(_, _)
Offset(names, i) ==
  IF i = 0 THEN 0 ELSE Offset(names, i - 1) + Len(names[i]) + 1

\* text is names[1] "\n" names[2] "\n" ... names[n] "\n".
IsNameLines(text, names) ==
  /\ Len(text) = Offset(names, Len(names))
  /\ \A i \in 1..Len(names) :
       SubSeq(text, Offset(names, i - 1) + 1, Offset(names, i)) = Append(names[i], NL)

\* C7: the text of a successfully parsed payload is the concatenation, in
\* Results order, of each Name followed by one newline; an empty Results list
\* gives the empty string; a successful write stores that text, so that after
\* an empty list the cache file exists with empty content.
FormatAndPersist ==
  (pc = "done" /\ pipeline = "ok") =>
    /\ IsNameLines(rt, hosts)
    /\ hosts = <<>> => rt = <<>>
    /\ (writes = 1 /\ ~errf) =>
         (cacheFile.exists /\ cacheFile.data = rt /\ cacheFile.modTime = clock)

\* An empty Results list was formatted and written: the file exists, empty.
FormatAndPersistWitness ==
  /\ pc = "done" /\ pipeline = "ok" /\ hosts = <<>> /\ rt = <<>>
  /\ writes = 1 /\ ~errf
  /\ cacheFile.exists /\ cacheFile.data = <<>>

\* ------------------------------------------------------------ claims on
\* the formatting and the output stage (SpecFmt)
Range(s) == { s[k] : k \in 1..Len(s) }

NoNewline(names) == \A i \in 1..Len(names) : NL \notin Range(names[i])

DropLast(s) == SubSeq(s, 1, Len(s) - 1)

\* C8, as claimed: for every list of names, splitting the formatted text on
\* newline and dropping the final element reproduces the list.
RoundTrip ==
  pc \in {"formatted", "printed"} => DropLast(Split(rt)) = hosts

\* C8, amended: for every list of names none of which contains a newline,
\* the empty list included, splitting the formatted text on newline and
\* dropping the final (empty) element reproduces the list, element for
\* element and in order.
RoundTripNoNewline ==
  (pc \in {"formatted", "printed"} /\ NoNewline(hosts)) =>
    /\ Split(rt) # <<>>
    /\ Split(rt)[Len(Split(rt))] = <<>>
    /\ DropLast(Split(rt)) = hosts

\* Three names, not all equal, formatted and recovered.
RoundTripWitness ==
  /\ pc = "formatted" /\ NoNewline(hosts)
  /\ Len(hosts) = 3 /\ hosts[1] # hosts[2]
  /\ DropLast(Split(rt)) = hosts

\* The names of the list that start with the pattern, in order.
Matching(names, pattern) ==
  LET Starts(n) == HasPrefix(n, pattern)
  IN SelectSeq(names, Starts)

\* One output line per element: prefix, element, newline.
RECURSIVE PrefixedLines(_, _)
PrefixedLines(lines, prefix) ==
  IF lines = <<>> THEN <<>>
  ELSE prefix \o Head(lines) \o <<NL>> \o PrefixedLines(Tail(lines), prefix)

\* C9: with a pattern given (the empty pattern included), the lines written
\* to standard output are, one-to-one and in order, exactly the names of the
\* list that start with the pattern, and no other line is written.  Stated
\* for the name lists without newline.
PatternFilter ==
  (pc = "printed" /\ HostPattern # Nil /\ NoNewline(hosts)) =>
    stdout = PrefixedLines(Matching(hosts, HostPattern), HostPrefix)

\* C10, as claimed: the display prefix is what precedes the first '@', the
\* '@' excluded, and the pattern is what follows it.
DisplayPrefixExcludesAt ==
  (pc = "printed" /\ Len(args) > 0 /\ AT \in Range(args[1])) =>
    LET i == Index(args[1], AT)
    IN /\ HostPrefix = SubSeq(args[1], 1, i)
       /\ HostPattern = SubSeq(args[1], i + 2, Len(args[1]))

\* C10, amended: for an argument containing '@' the display prefix is
\* everything up to and including the first '@' and the pattern is everything
\* after it; without '@' the prefix is empty and the whole argument is the
\* pattern; every output line is the display prefix followed by a line of the
\* host text that starts with the pattern.
DisplayPrefixIncludesAt ==
  (pc = "printed" /\ Len(args) > 0) =>
    /\ args[1] = HostPrefix \o HostPattern
    /\ AT \notin Range(args[1]) => HostPrefix = <<>>
    /\ AT \in Range(args[1]) =>
         /\ HostPrefix # <<>>
         /\ HostPrefix[Len(HostPrefix)] = AT
         /\ AT \notin Range(DropLast(HostPrefix))
    /\ stdout = PrefixedLines(Matching(Split(rt), HostPattern), HostPrefix)

\* Argument P@a on the names a, b, ab writes the lines P@a and P@ab.
DisplayPrefixWitness ==
  /\ pc = "printed"
  /\ args = << <<"P", AT, "a">> >>
  /\ hosts = << <<"a">>, <<"b">>, <<"a", "b">> >>
  /\ stdout = <<"P", AT, "a", NL, "P", AT, "a", "b", NL>>

\* ---------------------------------------------------------------------------
\* C11..C13: what a process run writes and how it exits.
\* ---------------------------------------------------------------------------

\* C11: with no pattern argument, the bytes written to standard output are
\* exactly the text getHosts returned, with nothing added or removed.
OutputVerbatim ==
  (pc = "done" /\ called /\ err = "nil" /\ HostPattern = Nil) => stdout = rt

\* C12: a payload of which any part fails to decode (a record whose Name is
\* not a string, truncated JSON) makes the pipeline fail with the parse error:
\* getHosts returns that error with empty text, the process writes nothing and
\* exits with status 1, and no name decoded before the failure is returned or
\* written to the cache, which is left as it was.
NoPartialSuccess ==
  [][(Ran /\ data'.kind \in {"mismatch", "truncated"})
     => /\ pipeline' = "parsefail"
        /\ err' = "parse"
        /\ rt' = <<>>
        /\ stdout' = <<>> /\ exit' = 1
        /\ writes' = 0
        /\ cacheFile' = cacheFile]_vars

\* A record with a valid name followed by one whose Name is a number: the
\* valid name was decoded, nothing was returned, the cache keeps its text.
NoPartialSuccessWitness ==
  /\ pc = "done" /\ data.kind = "mismatch"
  /\ \E i \in 1..Len(hosts) : hosts[i] # <<>>
  /\ rt = <<>> /\ err = "parse"
  /\ cacheFile.exists /\ cacheFile.data # <<>>

\* C13, as claimed: a process run ends with a non-zero status and nothing
\* written to standard output if and only if getHosts returned an error.
ExitIffGetHostsError ==
  pc = "done" => ((exit # 0 /\ stdout = <<>>) <=> (called /\ err # "nil"))

\* C13, amended: a process run that reaches getHosts ends with a non-zero
\* status and nothing written to standard output if and only if getHosts
\* returned an error; a failure of MkdirAll or of WriteFile alone gives
\* status 0 and the output of the freshly formatted text, the same as when
\* the write succeeds.
ExitBehaviour ==
  (pc = "done" /\ called) =>
    /\ (exit # 0 /\ stdout = <<>>) <=> (err # "nil")
    /\ (errd \/ errf) =>
         /\ exit = 0
         /\ stdout = Output(FormatNames(hosts), HostPattern, HostPrefix)

\* The write failed, the run wrote the fresh names and exited with status 0.
ExitBehaviourWitness ==
  /\ pc = "done" /\ called /\ errf
  /\ hosts # <<>> /\ stdout # <<>> /\ exit = 0

\* ---------------------------------------------------------------------------
\* C15..C19: the cache file over a sequence of runs.
\* ---------------------------------------------------------------------------

\* The complete texts: what formatting one successfully parsed payload gives.
CompleteTexts == { FormatNames(l) : l \in ResultLists }

\* C15: over any sequence of runs, with arbitrary fetch, parse, mkdir and
\* write failures, the cache file is absent or its whole content is the
\* complete text formatted from one successfully fetched and parsed payload;
\* it is created or overwritten only by a run whose refresh succeeded, and it
\* is never deleted.
CacheEntryInvariant ==
  /\ [](cacheFile.exists => cacheFile.data \in CompleteTexts)
  /\ [][/\ cacheFile' # cacheFile => (Ran /\ pipeline' = "ok")
        /\ cacheFile.exists => cacheFile'.exists]_vars

\* C16: a run issues at most one HTTP request and performs at most one
\* cache-file write; the request is issued only after the cache check decided
\* a miss; a request that could not be built, a transport failure and a
\* body-read failure each end the run with the error of the fetch, with no
\* second attempt.
SingleAttempt ==
  pc = "done" =>
    /\ requests \in {0, 1}
    /\ writes \in {0, 1}
    /\ requests = 1 => (called /\ ~hit /\ pipeline # "none")
    /\ hit => (requests = 0 /\ writes = 0)
    /\ (pipeline = "fetchfail") <=> (err \in {"build", "transport", "body"})
    /\ err \in {"transport", "body"} => requests = 1
    /\ err = "build" => requests = 0

\* A transport failure after a miss: one request was made, no write.
SingleAttemptWitness ==
  pc = "done" /\ called /\ ~hit /\ err = "transport" /\ requests = 1 /\ writes = 0

\* C17: a successful refresh at time t whose write succeeds leaves the file
\* with the returned text and modification time t; only a run changes the
\* file; a run at a time in [T, T + D], T the file's modification time, whose
\* stat and read succeed is a hit returning the file's text without a request;
\* a run after T + D fetches again.
CacheCoherence ==
  /\ []((pc = "done" /\ writes = 1 /\ ~errf) =>
          cacheFile = [exists |-> TRUE, data |-> rt, modTime |-> clock])
  /\ [][/\ pc' # "done" => cacheFile' = cacheFile
        /\ (Ran /\ cacheFile.exists /\ ~fi'.err /\ ~readErr') =>
             /\ clock <= cacheFile.modTime + CacheDuration' =>
                  /\ hit' /\ rt' = cacheFile.data
                  /\ requests' = 0
                  /\ cacheFile' = cacheFile
             /\ clock > cacheFile.modTime + CacheDuration' =>
                  /\ ~hit' /\ pipeline' # "none"]_vars

\* A hit, one tick after the write and inside the duration, on a non-empty
\* text.
CacheCoherenceWitness ==
  /\ pc = "done" /\ hit /\ rt # <<>>
  /\ CacheDuration = 2 /\ clock = cacheFile.modTime + 1
  /\ rt = cacheFile.data

\* C19: a body received without transport error that is not a host list (a
\* JSON object with no Results field, as an error response carries, or the
\* JSON value null) does not make getHosts return success with empty text and
\* does not replace a non-empty cache file with empty content.
OnlyHostListsCached ==
  [][(Ran /\ data'.kind \in {"noresults", "null"}) =>
       /\ ~(err' = "nil" /\ rt' = <<>>)
       /\ ~(cacheFile.exists /\ cacheFile.data # <<>>
            /\ cacheFile'.data = <<>>)]_vars

\* ---------------------------------------------------------------------------
\* C14 and C18: interrupted and concurrent writes of the cache file.
\* ---------------------------------------------------------------------------

\* C14: after a run was killed between creating the cache directory and
\* writing the file (the file is as it was), or in the middle of the write
\* (the file is truncated or partly written), the next run does not return
\* the incomplete content as a cache hit: it takes the cache for stale or
\* unreadable and fetches again.
CrashSelfCorrecting ==
  [][(Ran /\ torn) => (~hit' /\ pipeline' # "none")]_vars

\* C18: with two processes calling getHosts concurrently on the same cache
\* file, the text a cache hit returns is always the complete text written by
\* some successful refresh, never the empty or partly written file seen
\* while the other process is in its write.
ConcurrentHitComplete ==
  \A p \in Procs : (procs[p].pc = "done" /\ procs[p].hit) => ~procs[p].torn

====
